---- MODULE Spec2Model ----
(***************************************************************************)
(* Model of xprezzo-json-parser (src/lib/json.js): the JSON body-parsing    *)
(* middleware.  Three specifications share the variables:                   *)
(*   Spec        the per-request gate (createReader / checkParse), the      *)
(*               body reader's completion and the decode step;              *)
(*   SpecParse   parseBody as a function of the decoded text;               *)
(*   SpecConfig  the constructor, the caller's options records and the      *)
(*               handlers bound to them through the WeakMap `prop`.         *)
(*                                                                          *)
(* JavaScript values are written as strings carrying their type:            *)
(*   "undefined" "null" "false" "true" "num:0" "num:5" "str:" "str:x"       *)
(*   "fn:..." "obj:..."                                                     *)
(* Texts (decoded bodies, charsets) are sequences of one-character strings. *)
(***************************************************************************)
EXTENDS Integers, Sequences, FiniteSets, TLC

\* ------------------------------------------------------------------ bounds
\* longest decoded body text explored by SpecParse
MaxLen == 3
\* number of times a handler is invoked on the request of one behaviour of Spec
MaxInvocations == 2
\* number of assignments the caller makes to an options record in SpecConfig
MaxSets == 1
\* number of handlers constructed in one behaviour of SpecConfig
MaxHandlers == 2

\* ------------------------------------------------------- JavaScript values
Undefined == "undefined"

TypeOf(v) ==
    IF v = "undefined" THEN "undefined"
    ELSE IF v = "null" THEN "object"
    ELSE IF v \in {"false", "true"} THEN "boolean"
    ELSE IF v \in {"num:0", "num:5", "num:7"} THEN "number"
    ELSE IF v \in {"str:", "str:x", "str:1kb", "str:application/json", "str:text/plain"} THEN "string"
    ELSE IF v \in {"fn:verify", "fn:reviver", "fn:always", "fn:never"} THEN "function"
    ELSE "object"

\* ToBoolean: undefined, null, false, 0 and the empty string are falsy
Truthy(v) == v \notin {"undefined", "null", "false", "num:0", "str:"}

\* a || b
Or(a, b) == IF Truthy(a) THEN a ELSE b

\* ---------------------------------------------------------------- texts
Chars == {" ", "\n", "{", "}", "[", "]", "\"", "#", "1"}

\* characters matched by \s in a regular expression
RegexSpace == {" ", "\n"}
\* characters the regular expression atom . does not match
LineTerminators == {"\n"}
\* insignificant whitespace of the JSON grammar
JsonWs == {" ", "\n"}
\* characters that may not appear raw inside a JSON string
ControlChars == {"\n"}

RECURSIVE SeqsUpTo(_, _)
SeqsUpTo(S, n) ==
    IF n = 0 THEN {<<>>}
    ELSE LET shorter == SeqsUpTo(S, n - 1)
         IN  shorter \cup {Append(s, c) : s \in {t \in shorter : Len(t) = n - 1}, c \in S}

Texts == SeqsUpTo(Chars, MaxLen)

\* ------------------------------------------------ JSON.parse (the runtime)
\* The message of a SyntaxError, as V8 words it:
\*   kind "end"    Unexpected end of JSON input
\*   kind "token"  Unexpected token <token> in JSON at position <position>
\*   kind "number" Unexpected number in JSON at position <position>
\*   kind "string" Unexpected string in JSON at position <position>
EndMessage == [kind |-> "end", token |-> "", position |-> -1]

NoValue == [t |-> "none", v |-> <<>>]
EmptyObject == [t |-> "obj", v |-> <<>>]

Fail(msg) == [ok |-> FALSE, next |-> 0, value |-> NoValue, message |-> msg]
Good(val, nxt) == [ok |-> TRUE, next |-> nxt, value |-> val, message |-> EndMessage]

\* the parser's complaint about position i (1-based) of s
Unexpected(s, i) ==
    IF i > Len(s) THEN Fail(EndMessage)
    ELSE IF s[i] = "1" THEN Fail([kind |-> "number", token |-> "", position |-> i - 1])
    ELSE IF s[i] = "\"" THEN Fail([kind |-> "string", token |-> "", position |-> i - 1])
    ELSE Fail([kind |-> "token", token |-> s[i], position |-> i - 1])

RECURSIVE SkipWs(_, _)
SkipWs(s, i) == IF i <= Len(s) /\ s[i] \in JsonWs THEN SkipWs(s, i + 1) ELSE i

RECURSIVE ScanDigits(_, _)
ScanDigits(s, i) == IF i <= Len(s) /\ s[i] = "1" THEN ScanDigits(s, i + 1) ELSE i

\* s[start] is the opening quote; j is the position being scanned
RECURSIVE ScanString(_, _, _)
ScanString(s, start, j) ==
    IF j > Len(s) THEN Fail(EndMessage)
    ELSE IF s[j] = "\"" THEN Good([t |-> "str", v |-> SubSeq(s, start + 1, j - 1)], j + 1)
    ELSE IF s[j] \in ControlChars
         THEN Fail([kind |-> "token", token |-> s[j], position |-> j - 1])
    ELSE ScanString(s, start, j + 1)

RECURSIVE ParseValue(_, _)
ParseValue(s, i) ==
    IF i > Len(s) THEN Fail(EndMessage)
    ELSE IF s[i] = "{" THEN
        LET j == SkipWs(s, i + 1) IN
        IF j > Len(s) THEN Fail(EndMessage)
        ELSE IF s[j] = "}" THEN Good(EmptyObject, j + 1)
        ELSE IF s[j] = "\"" THEN
            LET key == ScanString(s, j, j + 1) IN
            \* a key must be followed by a colon
            IF key.ok THEN Unexpected(s, SkipWs(s, key.next)) ELSE key
        ELSE Unexpected(s, j)
    ELSE IF s[i] = "[" THEN
        LET j == SkipWs(s, i + 1) IN
        IF j > Len(s) THEN Fail(EndMessage)
        ELSE IF s[j] = "]" THEN Good([t |-> "arr", v |-> <<>>], j + 1)
        ELSE LET el == ParseValue(s, j) IN
             IF ~el.ok THEN el
             ELSE LET k == SkipWs(s, el.next) IN
                  IF k <= Len(s) /\ s[k] = "]"
                  THEN Good([t |-> "arr", v |-> <<el.value>>], k + 1)
                  ELSE Unexpected(s, k)
    ELSE IF s[i] = "\"" THEN ScanString(s, i, i + 1)
    ELSE IF s[i] = "1" THEN
        LET j == ScanDigits(s, i) IN Good([t |-> "num", v |-> SubSeq(s, i, j - 1)], j)
    ELSE Unexpected(s, i)

\* a reviver function is applied to the parsed value; any other reviver is ignored
Revive(value, reviver) ==
    IF TypeOf(reviver) = "function" THEN [t |-> "revived", v |-> <<value>>] ELSE value

\* JSON.parse(text, reviver): [threw, value, error]
JSONParse(text, reviver) ==
    LET r == ParseValue(text, SkipWs(text, 1))
        k == IF r.ok THEN SkipWs(text, r.next) ELSE 0
        bad == IF ~r.ok THEN r ELSE Unexpected(text, k)
    IN  IF r.ok /\ k > Len(text)
        THEN [threw |-> FALSE, value |-> Revive(r.value, reviver),
              error |-> [name |-> "none", message |-> EndMessage]]
        ELSE [threw |-> TRUE, value |-> NoValue,
              error |-> [name |-> "SyntaxError", message |-> bad.message]]

\* ------------------------------------------------------------ variables
VARIABLES
    options,      \* the caller's options records; the constructor writes parsed* on them
    prop,         \* the WeakMap: handler h (an index) -> the record it was built from
    constructed,  \* outcome of the latest constructor call
    sets,         \* number of assignments the caller made to options records
    req,          \* the request: _body, body, hasBody, contentType
    invocations,  \* number of handler invocations on req
    gate,         \* what the latest handler invocation did: continuation calls, reader starts
    reader,       \* the body reader started by the handler
    decode        \* the decode step: its input text and what parseBody did

vars == <<options, prop, constructed, sets, req, invocations, gate, reader, decode>>

\* ------------------------------------------------------ src/lib/json.js
\* /^\s*(.)/.exec(str): the greedy \s* backs off until . matches; the index
\* (0-based) of the captured character, or -1 when exec returns null
FirstcharMatch(str) ==
    LET lead == CHOOSE n \in 0..Len(str) :
                    /\ \A i \in 1..n : str[i] \in RegexSpace
                    /\ (n = Len(str) \/ str[n + 1] \notin RegexSpace)
        fits == {k \in 0..lead : k + 1 <= Len(str) /\ str[k + 1] \notin LineTerminators}
    IN  IF fits = {} THEN -1 ELSE CHOOSE k \in fits : \A m \in fits : m <= k

\* firstchar(str): [threw, char]; reading [1] of a null match is a TypeError
firstchar(str) ==
    LET k == FirstcharMatch(str) IN
    IF k = -1 THEN [threw |-> TRUE, char |-> ""]
    ELSE [threw |-> FALSE, char |-> str[k + 1]]

\* str.indexOf(char), 0-based, -1 when absent
IndexOf(str, char) ==
    IF \E i \in 1..Len(str) : str[i] = char
    THEN (CHOOSE i \in 1..Len(str) : str[i] = char /\ \A j \in 1..(i - 1) : str[j] # char) - 1
    ELSE -1

\* message.replace('#', char): the first '#' of the message text.  Of the
\* messages above only the token of an "Unexpected token" message can hold one.
MessageReplace(message, char) ==
    IF message.kind = "token" /\ message.token = "#"
    THEN [message EXCEPT !.token = char]
    ELSE message

normalizeJsonSyntaxError(error, message) ==
    [name |-> error.name, message |-> message]

\* createStrictSyntaxError(str, char): [error, parsed], parsed the text handed to JSON.parse
createStrictSyntaxError(str, char) ==
    LET index == IndexOf(str, char)
        partial == Append(SubSeq(str, 1, index), "#")
        e == JSONParse(partial, Undefined).error
    IN  [error |-> normalizeJsonSyntaxError(e, MessageReplace(e.message, char)),
         parsed |-> partial]

NoError == [name |-> "none", message |-> EndMessage]

\* parseBody without the special case of the empty body
parseBody_NoEmptyCase(self, body) ==
    LET first == firstchar(body)
        r == JSONParse(body, self.reviver)
        call == [site |-> "parseBody", text |-> body, reviver |-> self.reviver]
    IN  IF Truthy(self.parsedStrict) /\ first.threw
        THEN [threw |-> TRUE, value |-> NoValue,
              error |-> [name |-> "TypeError", message |-> EndMessage],
              strictChecked |-> TRUE, parseCalls |-> <<>>]
        ELSE IF Truthy(self.parsedStrict) /\ first.char # "{" /\ first.char # "["
        THEN [threw |-> TRUE, value |-> NoValue,
              error |-> createStrictSyntaxError(body, first.char).error,
              strictChecked |-> TRUE,
              parseCalls |-> <<[site |-> "createStrictSyntaxError",
                                text |-> createStrictSyntaxError(body, first.char).parsed,
                                reviver |-> Undefined]>>]
        ELSE IF r.threw
        THEN [threw |-> TRUE, value |-> NoValue,
              error |-> normalizeJsonSyntaxError(r.error, r.error.message),
              strictChecked |-> Truthy(self.parsedStrict), parseCalls |-> <<call>>]
        ELSE [threw |-> FALSE, value |-> r.value, error |-> NoError,
              strictChecked |-> Truthy(self.parsedStrict), parseCalls |-> <<call>>]

\* parseBody.call(that, body) with self = prop.get(that):
\*   threw/value/error  the outcome
\*   strictChecked      whether firstchar was evaluated
\*   parseCalls         every JSON.parse call made, in order: the function that
\*                      made it and its arguments
parseBody(self, body) ==
    IF Len(body) = 0
    THEN [threw |-> FALSE, value |-> EmptyObject, error |-> NoError,
          strictChecked |-> FALSE, parseCalls |-> <<>>]
    ELSE
    LET first == firstchar(body)
        strictError == createStrictSyntaxError(body, first.char)
        r == JSONParse(body, self.reviver)
        call == [site |-> "parseBody", text |-> body, reviver |-> self.reviver]
    IN  IF Truthy(self.parsedStrict) /\ first.threw
        THEN [threw |-> TRUE, value |-> NoValue,
              error |-> [name |-> "TypeError", message |-> EndMessage],
              strictChecked |-> TRUE, parseCalls |-> <<>>]
        ELSE IF Truthy(self.parsedStrict) /\ first.char # "{" /\ first.char # "["
        THEN [threw |-> TRUE, value |-> NoValue, error |-> strictError.error,
              strictChecked |-> TRUE,
              parseCalls |-> <<[site |-> "createStrictSyntaxError",
                                text |-> strictError.parsed, reviver |-> Undefined]>>]
        ELSE IF r.threw
        THEN [threw |-> TRUE, value |-> NoValue,
              error |-> normalizeJsonSyntaxError(r.error, r.error.message),
              strictChecked |-> Truthy(self.parsedStrict), parseCalls |-> <<call>>]
        ELSE [threw |-> FALSE, value |-> r.value, error |-> NoError,
              strictChecked |-> Truthy(self.parsedStrict), parseCalls |-> <<call>>]

\* ------------------------------------------------------- the constructor
\* bytes.parse of a size string
BytesParse(v) ==
    IF v = "str:100kb" THEN "num:102400"
    ELSE IF v = "str:1kb" THEN "num:1024"
    ELSE "null"

NoPredicate == [kind |-> "undefined", arg |-> Undefined]

\* typeChecker(type): req => Boolean(typeis(req, type))
typeChecker(type) == [kind |-> "typeChecker", arg |-> type]

\* an options object the caller has not yet handed to the constructor
FreshOptions(limit, inflate, strict, type, verify, reviver) ==
    [limit |-> limit, inflate |-> inflate, strict |-> strict, type |-> type,
     verify |-> verify, reviver |-> reviver,
     parsedLimit |-> Undefined, parsedInflate |-> Undefined, parsedStrict |-> Undefined,
     parsedType |-> Undefined, parsedVerify |-> Undefined, shouldParse |-> NoPredicate]

\* the assignments of the constructor up to the verify check; opts is the
\* caller's own object (const opts = options || {})
ParsedOptions(opts) ==
    [opts EXCEPT
        !.parsedLimit = IF TypeOf(opts.limit) # "number"
                        THEN BytesParse(Or(opts.limit, "str:100kb"))
                        ELSE opts.limit,
        !.parsedInflate = IF opts.inflate # "false" THEN "true" ELSE "false",
        !.parsedStrict = IF opts.strict # "false" THEN "true" ELSE "false",
        !.parsedType = Or(opts.type, "str:application/json"),
        !.parsedVerify = Or(opts.verify, "false")]

\* opts.parsedVerify !== false && typeof opts.parsedVerify !== 'function'
VerifyRejected(opts) ==
    opts.parsedVerify # "false" /\ TypeOf(opts.parsedVerify) # "function"

\* new JsonParser(options): [threw, opts]; opts is the options object as the
\* constructor leaves it, also when it throws
JsonParser(o) ==
    LET opts == ParsedOptions(o) IN
    IF VerifyRejected(opts)
    THEN [threw |-> TRUE, opts |-> opts]
    ELSE [threw |-> FALSE,
          opts |-> [opts EXCEPT !.shouldParse =
                        IF TypeOf(opts.parsedType) # "function"
                        THEN typeChecker(opts.parsedType)
                        ELSE [kind |-> "function", arg |-> opts.parsedType]]]

\* ------------------------------------------------------------ the request
Utf8 == <<"u", "t", "f", "-", "8">>

Lower == [c \in {"U", "T", "F", "I", "S", "O", "K", "R"} |->
            CASE c = "U" -> "u" [] c = "T" -> "t" [] c = "F" -> "f" [] c = "I" -> "i"
              [] c = "S" -> "s" [] c = "O" -> "o" [] c = "K" -> "k" [] c = "R" -> "r"]

Upper == [c \in {"u", "t", "f", "i", "s", "o", "k", "r"} |->
            CASE c = "u" -> "U" [] c = "t" -> "T" [] c = "f" -> "F" [] c = "i" -> "I"
              [] c = "s" -> "S" [] c = "o" -> "O" [] c = "k" -> "K" [] c = "r" -> "R"]

toLowerCase(s) == [i \in 1..Len(s) |-> IF s[i] \in DOMAIN Lower THEN Lower[s[i]] ELSE s[i]]
toUpperCase(s) == [i \in 1..Len(s) |-> IF s[i] \in DOMAIN Upper THEN Upper[s[i]] ELSE s[i]]

\* str.substr(0, n)
Substr0(s, n) == SubSeq(s, 1, IF n < Len(s) THEN n ELSE Len(s))

\* JavaScript values a request body can hold, in the shape of parsed JSON values
UndefinedValue == [t |-> "undefined", v |-> <<>>]
NullValue == [t |-> "null", v |-> <<>>]
ZeroValue == [t |-> "num", v |-> <<"0">>]
TextValue == [t |-> "str", v |-> <<"x">>]

TruthyValue(val) ==
    /\ val.t \notin {"undefined", "null", "none"}
    /\ ~(val.t = "num" /\ \A i \in 1..Len(val.v) : val.v[i] = "0")
    /\ ~(val.t = "str" /\ val.v = <<>>)

\* getCharset without the lower-casing
getCharset_CaseKept(r) ==
    IF r.contentType.kind # "ok"
    THEN [defined |-> FALSE, s |-> <<>>]
    ELSE [defined |-> TRUE,
          s |-> IF r.contentType.hasCharset THEN r.contentType.charset ELSE <<>>]

\* getCharset(req): contentType.parse throws on a missing or malformed header
getCharset(r) ==
    IF r.contentType.kind # "ok"
    THEN [defined |-> FALSE, s |-> <<>>]
    ELSE [defined |-> TRUE,
          s |-> toLowerCase(IF r.contentType.hasCharset THEN r.contentType.charset ELSE <<>>)]

\* typeis(req, type) for a request that has a body
TypeIs(r, type) ==
    /\ r.hasBody
    /\ r.contentType.kind = "ok"
    /\ type = r.contentType.media

\* self.shouldParse(req)
ShouldParse(self, r) ==
    IF self.shouldParse.kind = "typeChecker" THEN TypeIs(r, self.shouldParse.arg)
    ELSE self.shouldParse.arg = "fn:always"

NextCall == [isError |-> FALSE, status |-> 0, type |-> "", charset |-> <<>>, message |-> <<>>]

\* createError(415, 'unsupported charset "' + charset.toUpperCase() + '"', {...})
CharsetError(charset) ==
    [isError |-> TRUE, status |-> 415, type |-> "charset.unsupported",
     charset |-> charset, message |-> toUpperCase(charset)]

\* checkParse with the charset check moved before the type check
checkParse_CharsetFirst(r, self, charset) ==
    IF Truthy(r._body) THEN [proceed |-> FALSE, calls |-> <<NextCall>>]
    ELSE IF ~r.hasBody THEN [proceed |-> FALSE, calls |-> <<NextCall>>]
    ELSE IF Substr0(charset, 4) # <<"u", "t", "f", "-">>
    THEN [proceed |-> FALSE, calls |-> <<CharsetError(charset)>>]
    ELSE IF ~ShouldParse(self, r) THEN [proceed |-> FALSE, calls |-> <<NextCall>>]
    ELSE [proceed |-> TRUE, calls |-> <<>>]

\* checkParse without the return after the type check's next()
checkParse_FallThrough(r, self, charset) ==
    IF Truthy(r._body) THEN [proceed |-> FALSE, calls |-> <<NextCall>>]
    ELSE IF ~r.hasBody THEN [proceed |-> FALSE, calls |-> <<NextCall>>]
    ELSE LET skipped == IF ShouldParse(self, r) THEN <<>> ELSE <<NextCall>> IN
         IF Substr0(charset, 4) # <<"u", "t", "f", "-">>
         THEN [proceed |-> FALSE, calls |-> Append(skipped, CharsetError(charset))]
         ELSE [proceed |-> TRUE, calls |-> skipped]

\* checkParse(req, res, next, self, charset): [proceed, calls], calls the
\* continuation calls it made, in order
checkParse(r, self, charset) ==
    IF Truthy(r._body) THEN [proceed |-> FALSE, calls |-> <<NextCall>>]
    ELSE IF ~r.hasBody THEN [proceed |-> FALSE, calls |-> <<NextCall>>]
    ELSE IF ~ShouldParse(self, r) THEN [proceed |-> FALSE, calls |-> <<NextCall>>]
    ELSE IF Substr0(charset, 4) # <<"u", "t", "f", "-">>
    THEN [proceed |-> FALSE, calls |-> <<CharsetError(charset)>>]
    ELSE [proceed |-> TRUE, calls |-> <<>>]

\* req.body = {} whatever the body was
DefaultBody_Overwrite(r) == [r EXCEPT !.body = EmptyObject]

\* req.body = req.body || {}
DefaultBody(r) == [r EXCEPT !.body = IF TruthyValue(r.body) THEN r.body ELSE EmptyObject]

\* the options the handler hands to Reader
ReaderOptions(self, charset) ==
    [encoding |-> charset, inflate |-> self.parsedInflate,
     limit |-> self.parsedLimit, verify |-> self.parsedVerify]

\* the handler returned by createReader, for self = prop.get(this):
\* [req, calls, started], started the options of every Reader call it made
Handler(r, self) ==
    LET r1 == DefaultBody(r)
        g == getCharset(r1)
        charset == IF g.defined /\ g.s # <<>> THEN g.s ELSE Utf8
        cp == checkParse(r1, self, charset)
    IN  [req |-> r1, calls |-> cp.calls,
         started |-> IF cp.proceed THEN <<ReaderOptions(self, charset)>> ELSE <<>>]

\* --------------------------------------------------------- the body reader
\* Reader (xprezzo-raw-body) reads the stream and either fails before decoding
\* or hands the decoded text to the parse callback, whose outcome is out; a
\* value the callback returns is attached to the request, an error it throws
\* goes to next
ReaderFinish(r, outcome, out) ==
    IF outcome.failed THEN [req |-> r, calls |-> <<"next(err)">>]
    ELSE IF out.threw THEN [req |-> r, calls |-> <<"next(err)">>]
    ELSE [req |-> [r EXCEPT !._body = "true", !.body = out.value], calls |-> <<"next()">>]

\* ------------------------------------------------------------ input sets
CharsetSamples ==
    { <<>>,
      <<"u", "t", "f", "-", "8">>,
      <<"U", "T", "F", "-", "8">>,
      <<"U", "t", "f", "-", "1", "6">>,
      <<"u", "t", "f", "-">>,
      <<"u", "t", "f", "8">>,
      <<"U", "T", "F">>,
      <<"i", "s", "o", "-", "8", "8", "5", "9", "-", "1">>,
      <<"I", "S", "O", "-", "8", "8", "5", "9", "-", "1">>,
      <<"K", "o", "i", "8", "-", "R">> }

ContentTypes ==
    {[kind |-> "none", media |-> "", hasCharset |-> FALSE, charset |-> <<>>],
     [kind |-> "invalid", media |-> "", hasCharset |-> FALSE, charset |-> <<>>]}
    \cup [kind : {"ok"}, media : {"str:application/json", "str:text/plain"},
          hasCharset : {FALSE}, charset : {<<>>}]
    \cup [kind : {"ok"}, media : {"str:application/json", "str:text/plain"},
          hasCharset : {TRUE}, charset : CharsetSamples]

BodyValues == {UndefinedValue, NullValue, ZeroValue, EmptyObject, TextValue}

Requests ==
    [_body : {"undefined", "true"}, body : BodyValues, hasBody : BOOLEAN,
     contentType : ContentTypes]

\* a POST of JSON text that no middleware has touched
JsonRequest ==
    [_body |-> "undefined", body |-> UndefinedValue, hasBody |-> TRUE,
     contentType |-> [kind |-> "ok", media |-> "str:application/json",
                      hasCharset |-> FALSE, charset |-> <<>>]]

\* decoded texts the reader delivers in Spec and SpecConfig
ReaderTexts == {<<>>, <<"{", "}">>, <<"1">>, <<"\n">>}

ReaderOutcomes ==
    {[failed |-> TRUE, text |-> <<>>]} \cup [failed : {FALSE}, text : ReaderTexts]

GateOptions ==
    {FreshOptions(l, i, s, t, v, Undefined) :
        l \in {"undefined", "num:5"}, i \in {"undefined", "false"},
        s \in {"undefined", "false"},
        t \in {"undefined", "str:text/plain", "fn:always"},
        v \in {"undefined", "fn:verify"}}

VerifyValues ==
    {"undefined", "false", "fn:verify", "num:0", "str:", "null", "num:5", "str:x", "obj:{}"}

FieldValues ==
    [limit |-> {"undefined", "num:5", "str:1kb"},
     inflate |-> {"undefined", "false"},
     strict |-> {"undefined", "false"},
     type |-> {"undefined", "str:text/plain", "fn:always"},
     verify |-> VerifyValues,
     reviver |-> {"undefined", "fn:reviver"}]

\* ---------------------------------------------------------- initial states
NoGate == [invoked |-> FALSE, handler |-> 0, before |-> JsonRequest,
           calls |-> <<>>, started |-> <<>>]
NoReader == [pc |-> "idle", handler |-> 0, opts |-> ReaderOptions(FreshOptions(
                Undefined, Undefined, Undefined, Undefined, Undefined, Undefined), <<>>),
             calls |-> <<>>]
NoDecode == [pc |-> "idle", body |-> <<>>,
             out |-> [threw |-> FALSE, value |-> NoValue, error |-> NoError,
                      strictChecked |-> FALSE, parseCalls |-> <<>>]]
NoConstruct == [done |-> FALSE, threw |-> FALSE, verify |-> Undefined, handler |-> 0]

\* Spec: one middleware constructed, one request arriving
Init ==
    /\ \E o \in GateOptions : options = <<JsonParser(o).opts>>
    /\ prop = <<1>>
    /\ constructed = NoConstruct
    /\ sets = 0
    /\ req \in Requests
    /\ invocations = 0
    /\ gate = NoGate
    /\ reader = NoReader
    /\ decode = NoDecode

\* SpecParse: one middleware constructed, one decoded text handed to parseBody
InitParse ==
    /\ \E s \in {"undefined", "false"}, rv \in {"undefined", "fn:reviver"} :
          options = <<JsonParser(FreshOptions(Undefined, Undefined, s, Undefined,
                                              Undefined, rv)).opts>>
    /\ prop = <<1>>
    /\ constructed = NoConstruct
    /\ sets = 0
    /\ req = JsonRequest
    /\ invocations = 0
    /\ gate = NoGate
    /\ reader = NoReader
    /\ \E body \in Texts : decode = [NoDecode EXCEPT !.pc = "ready", !.body = body]

\* SpecConfig: the caller holds one options object; nothing constructed yet
InitConfig ==
    /\ \E v \in VerifyValues :
          options = <<FreshOptions(Undefined, Undefined, Undefined, Undefined, v, Undefined)>>
    /\ prop = <<>>
    /\ constructed = NoConstruct
    /\ sets = 0
    /\ req = JsonRequest
    /\ invocations = 0
    /\ gate = NoGate
    /\ reader = NoReader
    /\ decode = NoDecode

\* ------------------------------------------------------------------ actions
\* handler h is invoked on the request
Handle(h) ==
    /\ reader.pc # "reading"
    /\ invocations < MaxInvocations
    /\ \E out \in {Handler(req, options[prop[h]])} :
        /\ req' = out.req
        /\ gate' = [invoked |-> TRUE, handler |-> h, before |-> req,
                    calls |-> out.calls, started |-> out.started]
        /\ reader' = IF out.started # <<>>
                     THEN [pc |-> "reading", handler |-> h, opts |-> out.started[1],
                           calls |-> <<>>]
                     ELSE reader
    /\ invocations' = invocations + 1
    /\ UNCHANGED <<options, prop, constructed, sets, decode>>

\* the reader started by the handler finishes; unless it failed it has called
\* the parse callback (body) => parseBody.call(that, body)
ReaderDone(outcome) ==
    /\ reader.pc = "reading"
    /\ \E out \in {parseBody(options[prop[reader.handler]], outcome.text)} :
       \E fin \in {ReaderFinish(req, outcome, out)} :
        /\ req' = fin.req
        /\ reader' = [reader EXCEPT !.pc = "done", !.calls = fin.calls]
        /\ decode' = IF outcome.failed THEN decode
                     ELSE [pc |-> "done", body |-> outcome.text, out |-> out]
    /\ UNCHANGED <<options, prop, constructed, sets, invocations, gate>>

\* the parse callback is called with the decoded text
Decode ==
    /\ decode.pc = "ready"
    /\ decode' = [decode EXCEPT !.pc = "done",
                                !.out = parseBody(options[prop[1]], decode.body)]
    /\ UNCHANGED <<options, prop, constructed, sets, req, invocations, gate, reader>>

\* JsonParser(options[r]): the caller constructs a middleware from its record r
Construct(r) ==
    /\ Len(prop) < MaxHandlers
    /\ \E res \in {JsonParser(options[r])} :
        /\ options' = [options EXCEPT ![r] = res.opts]
        /\ prop' = IF res.threw THEN prop ELSE Append(prop, r)
        /\ constructed' = [done |-> TRUE, threw |-> res.threw,
                           verify |-> options[r].verify,
                           handler |-> IF res.threw THEN 0 ELSE Len(prop) + 1]
    /\ UNCHANGED <<sets, req, invocations, gate, reader, decode>>

\* JsonParser(): options is undefined, so the constructor makes its own object
ConstructDefault ==
    /\ Len(prop) < MaxHandlers
    /\ \E res \in {JsonParser(FreshOptions(Undefined, Undefined, Undefined, Undefined,
                                             Undefined, Undefined))} :
        /\ options' = Append(options, res.opts)
        /\ prop' = Append(prop, Len(options) + 1)
        /\ constructed' = [done |-> TRUE, threw |-> FALSE, verify |-> Undefined,
                           handler |-> Len(prop) + 1]
    /\ UNCHANGED <<sets, req, invocations, gate, reader, decode>>

\* the caller assigns a field of its own options object
SetOption(f, v) ==
    /\ sets < MaxSets
    /\ options[1][f] # v
    /\ options' = [options EXCEPT ![1][f] = v]
    /\ sets' = sets + 1
    /\ UNCHANGED <<prop, constructed, req, invocations, gate, reader, decode>>

Next ==
    \/ Handle(1)
    \/ \E outcome \in ReaderOutcomes : ReaderDone(outcome)

NextParse == Decode

NextConfig ==
    \/ Construct(1)
    \/ ConstructDefault
    \/ \E f \in DOMAIN FieldValues : \E v \in FieldValues[f] : SetOption(f, v)
    \/ \E h \in 1..Len(prop) : Handle(h)
    \/ \E outcome \in ReaderOutcomes : ReaderDone(outcome)

Spec == Init /\ [][Next]_vars
SpecParse == InitParse /\ [][NextParse]_vars
SpecConfig == InitConfig /\ [][NextConfig]_vars

\* ============================================================== properties
\* helpers of the properties, stated on the request as the client sent it

\* the configuration the latest invocation's handler reads
GateSelf == options[prop[gate.handler]]

\* the charset as sent, utf-8 when the header is missing, malformed or names none
SentCharset(r) ==
    IF r.contentType.kind = "ok" /\ r.contentType.hasCharset /\ r.contentType.charset # <<>>
    THEN r.contentType.charset
    ELSE Utf8

\* cs starts with "utf-" in any letter case
StartsWithUtf(cs) ==
    /\ Len(cs) >= 4
    /\ cs[1] \in {"u", "U"} /\ cs[2] \in {"t", "T"} /\ cs[3] \in {"f", "F"} /\ cs[4] = "-"

IsCharsetError(call) ==
    call.isError /\ call.status = 415 /\ call.type = "charset.unsupported"

SignalsCharsetError == \E i \in 1..Len(gate.calls) : IsCharsetError(gate.calls[i])

\* the request passes the three gates that precede the charset check
ReachesCharsetCheck(r) ==
    ~Truthy(r._body) /\ r.hasBody /\ ShouldParse(GateSelf, r)

HasUpperCase(cs) == \E i \in 1..Len(cs) : cs[i] \in DOMAIN Lower

\* C1: the handler signals charset.unsupported (415) exactly when the request is
\* not marked parsed, has a body, satisfies the type predicate and its resolved
\* charset does not start with "utf-" in any letter case; then no read is started
C1_CharsetErrorIff ==
    gate.invoked =>
        /\ SignalsCharsetError <=>
                (ReachesCharsetCheck(gate.before) /\ ~StartsWithUtf(SentCharset(gate.before)))
        /\ SignalsCharsetError => gate.started = <<>>

C1_Witness ==
    /\ gate.invoked /\ SignalsCharsetError /\ gate.started = <<>>
    /\ gate.before.contentType.charset = <<"U", "T", "F">>

\* C2: a request that is already marked parsed is passed on without an error
\* and with every field, its body included, as it was before the call
C2_ParsedRequestUntouched ==
    (gate.invoked /\ Truthy(gate.before._body)) =>
        /\ gate.calls = <<NextCall>>
        /\ gate.started = <<>>
        /\ req = gate.before

\* the request is not marked parsed and is skipped: no body, or the type does not match
Skipped(r) == ~Truthy(r._body) /\ (~r.hasBody \/ ~ShouldParse(GateSelf, r))

C4_ErrorCharsetAsSent ==
    gate.invoked =>
        \A i \in 1..Len(gate.calls) :
            IsCharsetError(gate.calls[i]) =>
                gate.calls[i].charset = gate.before.contentType.charset

\* C4 amended: the charset field is the charset parameter in lower case
C4_ErrorCharsetLowerCased ==
    gate.invoked =>
        \A i \in 1..Len(gate.calls) :
            IsCharsetError(gate.calls[i]) =>
                LET sent == gate.before.contentType.charset
                    got == gate.calls[i].charset
                IN  /\ Len(got) = Len(sent)
                    /\ \A k \in 1..Len(sent) :
                          got[k] = IF sent[k] \in DOMAIN Lower THEN Lower[sent[k]] ELSE sent[k]

C4_Witness ==
    /\ gate.invoked /\ SignalsCharsetError
    /\ HasUpperCase(gate.before.contentType.charset)
    /\ ~HasUpperCase(gate.calls[1].charset)

\* C10: an invocation ends its gate phase in exactly one of: one call of the
\* continuation without an error, one call with a charset-unsupported error, one
\* start of the reader with the resolved charset and the configured inflate,
\* limit and verify
C10_ExactlyOneOutcome ==
    gate.invoked =>
        /\ Len(gate.calls) + Len(gate.started) = 1
        /\ \A i \in 1..Len(gate.calls) :
              gate.calls[i] = NextCall \/ IsCharsetError(gate.calls[i])
        /\ \A i \in 1..Len(gate.started) :
              gate.started[i] =
                  [encoding |-> toLowerCase(SentCharset(gate.before)),
                   inflate |-> GateSelf.parsedInflate,
                   limit |-> GateSelf.parsedLimit,
                   verify |-> GateSelf.parsedVerify]

C10_Witness ==
    /\ gate.invoked /\ gate.calls = <<>> /\ Len(gate.started) = 1
    /\ gate.before.contentType.charset = <<"U", "T", "F", "-", "8">>
    /\ gate.started[1].encoding = Utf8
    /\ gate.started[1].verify = "fn:verify"

\* ------------------------------------------------------- the decode step
DecodeSelf == options[prop[1]]

Decoded == decode.pc = "done"

\* position (1-based) of the first character of body that is not whitespace, 0 if none
FirstNonWs(body) ==
    IF \A i \in 1..Len(body) : body[i] \in RegexSpace THEN 0
    ELSE CHOOSE i \in 1..Len(body) :
            body[i] \notin RegexSpace /\ \A j \in 1..(i - 1) : body[j] \in RegexSpace

\* strict mode is on and the non-empty body does not open an object or an array
ViolatesStrict(self, body) ==
    /\ self.parsedStrict = "true"
    /\ Len(body) > 0
    /\ (FirstNonWs(body) = 0 \/ body[FirstNonWs(body)] \notin {"{", "["})

\* parseBody handed the body text to JSON.parse
ParsedBodyText(out) == \E i \in 1..Len(out.parseCalls) : out.parseCalls[i].site = "parseBody"

\* C5: an empty text decodes to {} with no strict check and no call of the JSON
\* parser, strict or not, reviver or not; a non-empty text does not take this way
C5_EmptyTextShortCircuit ==
    Decoded =>
        /\ Len(decode.body) = 0 =>
              /\ ~decode.out.threw /\ decode.out.value = EmptyObject
              /\ ~decode.out.strictChecked /\ decode.out.parseCalls = <<>>
        /\ Len(decode.body) > 0 =>
              /\ decode.out.strictChecked <=> DecodeSelf.parsedStrict = "true"
              /\ decode.out.strictChecked \/ decode.out.parseCalls # <<>>

C5_Witness ==
    /\ Decoded /\ decode.body = <<>> /\ decode.out.value = EmptyObject
    /\ DecodeSelf.parsedStrict = "true" /\ DecodeSelf.reviver = "fn:reviver"

\* C6: in strict mode a non-empty text whose first non-whitespace character is
\* not { or [ (whitespace-only texts included) fails with a strict-violation
\* syntax error and the parser is never called on the body text; every other
\* non-empty text is handed whole to the parser with the reviver, and the
\* parser's result or syntax error is the outcome
C6_StrictGate ==
    (Decoded /\ Len(decode.body) > 0) =>
        IF ViolatesStrict(DecodeSelf, decode.body)
        THEN /\ decode.out.threw
             /\ decode.out.error.name = "SyntaxError"
             /\ ~ParsedBodyText(decode.out)
        ELSE /\ decode.out.parseCalls =
                    <<[site |-> "parseBody", text |-> decode.body,
                       reviver |-> DecodeSelf.reviver]>>
             /\ decode.out.threw = JSONParse(decode.body, DecodeSelf.reviver).threw
             /\ decode.out.value = JSONParse(decode.body, DecodeSelf.reviver).value
             /\ decode.out.error = JSONParse(decode.body, DecodeSelf.reviver).error

\* C7: the message of a strict violation names the first non-whitespace
\* character of the body, never a leading whitespace character, at the index
\* that character has in the body
C7_StrictMessageNamesOffender ==
    (Decoded /\ ViolatesStrict(DecodeSelf, decode.body)) =>
        /\ decode.out.threw
        /\ decode.out.error.name = "SyntaxError"
        /\ decode.out.error.message.kind = "token"
        /\ decode.out.error.message.token \notin RegexSpace
        /\ FirstNonWs(decode.body) > 0
        /\ decode.out.error.message.token = decode.body[FirstNonWs(decode.body)]
        /\ decode.out.error.message.position = FirstNonWs(decode.body) - 1

\* ------------------------------------------------------- the configuration
Handlers == 1..Len(prop)

\* what handler h hands to the body reader and to the decode step
HandlerConfig(h) ==
    [limit |-> options[prop[h]].parsedLimit,
     inflate |-> options[prop[h]].parsedInflate,
     strict |-> options[prop[h]].parsedStrict,
     shouldParse |-> options[prop[h]].shouldParse,
     verify |-> options[prop[h]].parsedVerify,
     reviver |-> options[prop[h]].reviver]

\* C8: the constructor throws exactly when verify is provided (not undefined,
\* not false) and is not a function, and then returns no handler; no handler
\* ever holds a verify that is neither false nor a function
C8_VerifyCheckedAtConstruction ==
    /\ constructed.done =>
          /\ constructed.threw <=>
                (constructed.verify \notin {"undefined", "false"}
                    /\ TypeOf(constructed.verify) # "function")
          /\ constructed.threw <=> constructed.handler = 0
    /\ \A h \in Handlers :
          HandlerConfig(h).verify = "false" \/ TypeOf(HandlerConfig(h).verify) = "function"

\* C9: no handling of a request and no construction of a further middleware
\* changes the configuration an existing handler uses
C9_ConfigurationFixed ==
    [][sets' = sets => \A h \in Handlers : HandlerConfig(h)' = HandlerConfig(h)]_vars

====
